---- MODULE Spec2Model ----
(***************************************************************************)
(* BrowserSession (src/src/core/browser.rs): the lifecycle of one browser  *)
(* session and the operations a caller drives it with.  Each async method  *)
(* is a sequence of steps, one per await; the driver (chromiumoxide) and   *)
(* the browser process are the environment, whose answers are chosen       *)
(* nondeterministically.  Error values are the BrowserError the driver's   *)
(* error converts to (BrowserError::from).                                 *)
(***************************************************************************)
EXTENDS Integers, Sequences, FiniteSets, TLC

(* ------------------------------ bounds --------------------------------- *)
\* pages the browser may hold open at once
MaxPages == 2

\* the tasks that may share one BrowserSession
Callers == {"c1", "c2"}

(* --------------------------- program values ---------------------------- *)
\* BrowserTimings::default()
DefaultTimings ==
  [launch_sleep |-> 280, set_proxy_sleep |-> 180,
   action_sleep |-> 80, wait_page_timeout |-> 700]

\* a second, caller-built BrowserTimings, different in every field
FastTimings ==
  [launch_sleep |-> 100, set_proxy_sleep |-> 60,
   action_sleep |-> 20, wait_page_timeout |-> 300]

TimingPolicies == {DefaultTimings, FastTimings}

\* trait Wait: const WAIT_SLEEP
WAIT_SLEEP == 10

\* proxy addresses a caller may pass; "None" is Option::None
Proxies == {"p1", "p2"}

\* BrowserError classes a driver call can convert to
DriverErrors == {"NetworkIO", "Timeout", "Driver"}

\* PageParam / call arguments (one record shape for every operation)
NoArg ==
  [proxy |-> "None", user_agent |-> FALSE, cookies |-> FALSE,
   stealth_mode |-> FALSE, duration |-> 0, has_wait |-> FALSE, wait_t |-> 0,
   timings |-> DefaultTimings, extensions |-> <<>>]

\* extension::PATH, the built-in extension every session loads
EXTENSION_PATH == "extension::PATH"

\* BrowserSessionConfig.extensions values a caller may pass; the default is
\* Vec::new()
CallerExtensions ==
  {<<>>, <<"e1">>, <<"e2", "e1">>, <<"e1", EXTENSION_PATH>>}

\* one entry of an operation's trace of driver calls and sleeps
Ev(a, o, d, px) == [a |-> a, o |-> o, d |-> d, px |-> px]

VARIABLES
  callers,    \* the tasks that use the session in this behaviour
  session,    \* "none" | "running" | "closed": the BrowserSession value
  proc,       \* "none" | "alive" | "exited": the browser process (Browser.child)
  procStarts, \* how many times the driver started a process
  drain,      \* "none" | "running" | "ended" | "cancelled": the spawned drain task
  spawns,     \* how many drain tasks were spawned
  timings,    \* BrowserSession.timings
  proxy,      \* the proxy the browser applied last ("None": direct)
  openPages,  \* ids of the pages open in the browser
  op,         \* per caller: the method it runs
  pc,         \* per caller: "idle", the await the method is at, or "done"
  arg,        \* per caller: the method's arguments
  res,        \* per caller: "none" while running, then "ok" or the BrowserError
  log,        \* per caller: the driver calls and sleeps of the method, in order
  pol,        \* per caller: BrowserSession.timings when the method was called
  page,       \* per caller: the Page the method holds (0: none)
  attempts,   \* per caller: close()'s local counter
  clock,      \* per caller: ms since the selector wait began
  wake,       \* per caller: ms at which the selector wait's pending await answers
  appear,     \* per caller: ms at which the selector appears (-1: never)
  val,        \* per caller: the value myip() parsed
  config      \* per caller: the BrowserConfig that to_config built

vars == <<callers, session, proc, procStarts, drain, spawns, timings, proxy,
          openPages, op, pc, arg, res, log, pol, page, attempts,
          clock, wake, appear, val, config>>

sessionVars == <<session, proc, procStarts, drain, spawns, timings>>
browserVars == <<proxy, openPages>>
pollVars == <<clock, wake, appear>>

NoVal == [ok |-> FALSE, ip |-> "", country |-> "", cc |-> ""]

\* no BrowserConfig was built
NoConfig == [built |-> FALSE, extensions |-> <<>>]

(* ------------------------------ helpers -------------------------------- *)
Last(s) == s[Len(s)]

\* the method returns r: the future completes
Return(c, r) ==
  /\ pc' = [pc EXCEPT ![c] = "done"]
  /\ res' = [res EXCEPT ![c] = r]

Goto(c, l) ==
  /\ pc' = [pc EXCEPT ![c] = l]
  /\ UNCHANGED res

Logged(c, e) == log' = [log EXCEPT ![c] = Append(@, e)]

\* what a driver command can answer: a dead browser or a stopped handler
\* answers no command
DriverAnswers ==
  IF proc = "alive" /\ drain = "running"
  THEN {"ok"} \cup DriverErrors
  ELSE DriverErrors

\* `&mut self` methods (set_timings, close) exclude every other borrow of the
\* session: no other method of it is in flight
Exclusive(c) == \A d \in callers \ {c} : pc[d] = "idle"

\* the `&self` methods whose overlap between two callers is explored; any
\* other method is explored running alone
Overlapping == {"set_proxy", "open_with_param"}

MayRun(c, o) ==
  \A d \in callers \ {c} :
    pc[d] = "idle" \/ {o, op[d]} \subseteq Overlapping

\* a call: the method's future is created with its arguments
Begin(c, o, a, l, pg) ==
  /\ c \in callers
  /\ pc[c] = "idle"
  /\ MayRun(c, o)
  /\ op' = [op EXCEPT ![c] = o]
  /\ arg' = [arg EXCEPT ![c] = a]
  /\ pc' = [pc EXCEPT ![c] = l]
  /\ res' = [res EXCEPT ![c] = IF l = "done" THEN "ok" ELSE "none"]
  /\ log' = [log EXCEPT ![c] = <<>>]
  /\ pol' = [pol EXCEPT ![c] = IF o = "launch" THEN a.timings ELSE timings]
  /\ page' = [page EXCEPT ![c] = pg]
  /\ attempts' = [attempts EXCEPT ![c] = 0]
  /\ clock' = [clock EXCEPT ![c] = 0]
  /\ wake' = [wake EXCEPT ![c] = 0]
  /\ appear' = [appear EXCEPT ![c] = -1]
  /\ val' = [val EXCEPT ![c] = NoVal]
  /\ config' = [config EXCEPT ![c] = NoConfig]

callVars == <<op, arg, pol, page, attempts, val, config>>

\* the caller takes the method's result; the completed future is dropped
Resume(c) ==
  /\ pc[c] = "done"
  /\ op' = [op EXCEPT ![c] = "none"]
  /\ arg' = [arg EXCEPT ![c] = NoArg]
  /\ pc' = [pc EXCEPT ![c] = "idle"]
  /\ res' = [res EXCEPT ![c] = "none"]
  /\ log' = [log EXCEPT ![c] = <<>>]
  /\ pol' = [pol EXCEPT ![c] = DefaultTimings]
  /\ page' = [page EXCEPT ![c] = 0]
  /\ attempts' = [attempts EXCEPT ![c] = 0]
  /\ clock' = [clock EXCEPT ![c] = 0]
  /\ wake' = [wake EXCEPT ![c] = 0]
  /\ appear' = [appear EXCEPT ![c] = -1]
  /\ val' = [val EXCEPT ![c] = NoVal]
  /\ config' = [config EXCEPT ![c] = NoConfig]
  /\ UNCHANGED <<callers, sessionVars, browserVars>>

(* ------------------------------ Init ----------------------------------- *)
Boot(cs) ==
  /\ callers = cs
  /\ session = "none"
  /\ proc = "none"
  /\ procStarts = 0
  /\ drain = "none"
  /\ spawns = 0
  /\ timings = DefaultTimings
  /\ proxy = "None"
  /\ openPages = {}
  /\ op = [c \in Callers |-> "none"]
  /\ pc = [c \in Callers |-> "idle"]
  /\ arg = [c \in Callers |-> NoArg]
  /\ res = [c \in Callers |-> "none"]
  /\ log = [c \in Callers |-> <<>>]
  /\ pol = [c \in Callers |-> DefaultTimings]
  /\ page = [c \in Callers |-> 0]
  /\ attempts = [c \in Callers |-> 0]
  /\ clock = [c \in Callers |-> 0]
  /\ wake = [c \in Callers |-> 0]
  /\ appear = [c \in Callers |-> -1]
  /\ val = [c \in Callers |-> NoVal]
  /\ config = [c \in Callers |-> NoConfig]

\* one caller drives the session, one call after another
Init == Boot({"c1"})

\* two tasks share the session (`&self` methods may overlap)
InitShared == Boot(Callers)

(* ------------------------------ launch --------------------------------- *)
\* BrowserSession::launch(bsc) is called: `let timings = bsc.timings.clone()`
LaunchCall(c) ==
  /\ session = "none"
  /\ Exclusive(c)
  /\ \E t \in TimingPolicies, x \in CallerExtensions :
       Begin(c, "launch", [NoArg EXCEPT !.timings = t, !.extensions = x],
             "l_config", 0)
  /\ UNCHANGED <<callers, sessionVars, browserVars>>

\* faulty variant of Extensions: the built-in extension is pushed last
ExtensionsCallerFirst(bsc) == bsc.extensions \o <<EXTENSION_PATH>>

\* to_config: extensions.push(extension::PATH.clone());
\* extensions.extend_from_slice(self.extensions.as_slice())
Extensions(bsc) == <<EXTENSION_PATH>> \o bsc.extensions

\* to_config: BrowserConfig::builder()...extensions(extensions)...build()
ToConfig(bsc) == [built |-> TRUE, extensions |-> Extensions(bsc)]

\* bsc.to_config()? : builder.build() fails with BuildBrowserConfigError
LaunchConfig(c) ==
  /\ pc[c] = "l_config"
  /\ \E o \in {"ok", "BuildBrowserConfigError"} :
       /\ Logged(c, Ev("to_config", o, 0, "-"))
       /\ IF o = "ok"
          THEN /\ Goto(c, "l_driver")
               /\ config' = [config EXCEPT ![c] = ToConfig(arg[c])]
          ELSE /\ Return(c, o)
               /\ config' = config
       /\ session' = session
  /\ UNCHANGED <<callers, proc, procStarts, drain, spawns, timings,
                 browserVars, op, arg, pol, page, attempts, val, pollVars>>

\* faulty variant of LaunchDriver: the launch error is not propagated
LaunchDriverIgnoresError(c) ==
  /\ pc[c] = "l_driver"
  /\ \E o \in {"ok", "Driver", "Timeout"} :
       /\ Logged(c, Ev("Browser::launch", o, 0, "-"))
       /\ Goto(c, "l_spawn")
       /\ proc' = IF o = "ok" THEN "alive" ELSE proc
       /\ procStarts' = IF o = "ok" THEN procStarts + 1 ELSE procStarts
       /\ session' = session
  /\ UNCHANGED <<callers, drain, spawns, timings, browserVars, callVars,
                 pollVars>>

\* Browser::launch(config).await? : the driver starts the process
LaunchDriver(c) ==
  /\ pc[c] = "l_driver"
  /\ \E o \in {"ok", "Driver", "Timeout"} :
       /\ Logged(c, Ev("Browser::launch", o, 0, "-"))
       /\ IF o = "ok"
          THEN /\ Goto(c, "l_spawn")
               /\ proc' = "alive"
               /\ procStarts' = procStarts + 1
               /\ session' = session
          ELSE /\ Return(c, o)
               /\ proc' = proc
               /\ procStarts' = procStarts
               /\ session' = session
  /\ UNCHANGED <<callers, drain, spawns, timings, browserVars, callVars,
                 pollVars>>

\* tokio::task::spawn(async move { while handler.next().await.is_some() {} })
LaunchSpawn(c) ==
  /\ pc[c] = "l_spawn"
  /\ drain' = "running"
  /\ spawns' = spawns + 1
  /\ Logged(c, Ev("spawn", "ok", 0, "-"))
  /\ Goto(c, "l_sleep")
  /\ UNCHANGED <<callers, session, proc, procStarts, timings, browserVars,
                 callVars, pollVars>>

\* sleep(launch_sleep).await; Ok(Self { browser, handle, timings })
LaunchSettle(c) ==
  /\ pc[c] = "l_sleep"
  /\ Logged(c, Ev("sleep", "launch_sleep", pol[c].launch_sleep, "-"))
  /\ Return(c, "ok")
  /\ session' = "running"
  /\ timings' = pol[c]
  /\ UNCHANGED <<callers, proc, procStarts, drain, spawns, browserVars,
                 callVars, pollVars>>

(* ---------------------------- set_timings ------------------------------ *)
\* faulty variant of NewTimings: one field keeps its old value
NewTimingsKeepsActionSleep(old, new) ==
  [new EXCEPT !.action_sleep = old.action_sleep]

\* self.timings = timings : the whole struct is assigned
NewTimings(old, new) == new

SetTimings(c) ==
  /\ session = "running"
  /\ Exclusive(c)
  /\ \E t \in TimingPolicies :
       /\ Begin(c, "set_timings", [NoArg EXCEPT !.timings = t], "done", 0)
       /\ timings' = NewTimings(timings, t)
  /\ UNCHANGED <<callers, session, proc, procStarts, drain, spawns,
                 browserVars>>

(* -------------------------------- close -------------------------------- *)
CloseCall(c) ==
  /\ session = "running"
  /\ Exclusive(c)
  /\ Begin(c, "close", NoArg, "c_close", 0)
  /\ UNCHANGED <<callers, sessionVars, browserVars>>

\* if self.browser.close().await.is_err() { kill } : graceful shutdown
CloseGraceful(c) ==
  /\ pc[c] = "c_close"
  /\ \E o \in (DriverAnswers \cap {"ok", "Driver", "Timeout"}) :
       /\ Logged(c, Ev("close", o, 0, "-"))
       /\ Goto(c, IF o = "ok" THEN "c_wait" ELSE "c_kill")
       \* a browser that acknowledged the command exits, or hangs in shutdown
       /\ IF o = "ok" THEN proc' \in {"alive", "exited"} ELSE proc' = proc
  /\ UNCHANGED <<callers, session, procStarts, drain, spawns, timings,
                 browserVars, callVars, pollVars>>

\* self.browser.kill().await : its result is dropped
CloseKill(c) ==
  /\ pc[c] = "c_kill"
  /\ \E o \in {"ok", "Driver"} :
       /\ Logged(c, Ev("kill", o, 0, "-"))
       /\ proc' = IF o = "ok" THEN "exited" ELSE proc
  /\ Goto(c, "c_wait")
  /\ UNCHANGED <<callers, session, procStarts, drain, spawns, timings,
                 browserVars, callVars, pollVars>>

\* faulty variant of CloseWait: returns as soon as wait() answers Ok,
\* without reaching self.handle.abort()
CloseWaitReturnsEarly(c) ==
  /\ pc[c] = "c_wait"
  /\ \/ /\ proc = "exited"
        /\ Logged(c, Ev("wait", "ok", 0, "-"))
        /\ Return(c, "ok")
     \/ /\ Logged(c, Ev("wait", "Driver", 0, "-"))
        /\ Goto(c, "c_try")
     \/ /\ proc = "alive"
        /\ Logged(c, Ev("wait", "pending", 0, "-"))
        /\ Goto(c, "c_wait_pending")
  /\ UNCHANGED <<callers, sessionVars, browserVars, callVars, pollVars>>

\* if self.browser.wait().await.is_err() { attempts = 0; retry loop }
\* wait() answers Ok once the process has exited and Err on an io error;
\* while the process lives the future is pending
CloseWait(c) ==
  /\ pc[c] = "c_wait"
  /\ \/ /\ proc = "exited"
        /\ Logged(c, Ev("wait", "ok", 0, "-"))
        /\ Goto(c, "c_abort")
     \/ /\ Logged(c, Ev("wait", "Driver", 0, "-"))
        /\ Goto(c, "c_try")
     \/ /\ proc = "alive"
        /\ Logged(c, Ev("wait", "pending", 0, "-"))
        /\ Goto(c, "c_wait_pending")
  /\ UNCHANGED <<callers, sessionVars, browserVars, callVars, pollVars>>

\* the pending wait() is woken by the exit of the process
CloseWaitWoken(c) ==
  /\ pc[c] = "c_wait_pending"
  /\ proc = "exited"
  /\ Logged(c, Ev("wait", "ok", 0, "-"))
  /\ Goto(c, "c_abort")
  /\ UNCHANGED <<callers, sessionVars, browserVars, callVars, pollVars>>

\* while self.browser.try_wait().is_err() && attempts < 4 { attempts += 1 }
CloseTryWait(c) ==
  /\ pc[c] = "c_try"
  /\ \E o \in {"ok", "Driver"} :
       /\ Logged(c, Ev("try_wait", o, attempts[c], "-"))
       /\ IF o # "ok" /\ attempts[c] < 4
          THEN /\ attempts' = [attempts EXCEPT ![c] = @ + 1]
               /\ Goto(c, "c_try")
          ELSE /\ attempts' = attempts
               /\ Goto(c, "c_abort")
  /\ UNCHANGED <<callers, sessionVars, browserVars, op, arg, pol, page, val,
                 config, pollVars>>

\* self.handle.abort() : cancels the drain task unless it already finished
CloseAbort(c) ==
  /\ pc[c] = "c_abort"
  /\ Logged(c, Ev("abort", "ok", 0, "-"))
  /\ drain' = IF drain = "running" THEN "cancelled" ELSE drain
  /\ session' = "closed"
  /\ Return(c, "ok")
  /\ UNCHANGED <<callers, proc, procStarts, spawns, timings, browserVars,
                 callVars, pollVars>>

(* ------------------- session-wide control channel ---------------------- *)
\* faulty variant of Swallows: the timeout class is swallowed too
SwallowsTimeout(o) == o \in {"ok", "NetworkIO", "Timeout"}

\* match error { BrowserError::NetworkIO => {}, _ => { return Err(error); } }
\* applied to the answer of browser.new_page(pseudo-url): TRUE when the
\* method goes on to its settle sleep
Swallows(o) == o \in {"ok", "NetworkIO"}

\* the settle duration each control method sleeps
SettleOf(cmd, t) ==
  IF cmd = "set_proxy" THEN t.set_proxy_sleep ELSE t.action_sleep

SettleName(cmd) ==
  IF cmd = "set_proxy" THEN "set_proxy_sleep" ELSE "action_sleep"

\* whether the browser carried the command out, given the driver's answer:
\* the network-layer failure is its acknowledgement; a timed-out command
\* may or may not have been carried out
Applied(o) ==
  IF Swallows(o) THEN {TRUE}
  ELSE IF o = "Timeout" THEN {TRUE, FALSE} ELSE {FALSE}

\* the command's effect on the browser
ProxyAfter(cmd, p, done) ==
  IF ~done THEN proxy
  ELSE IF cmd = "set_proxy" THEN p
  ELSE IF cmd = "reset_proxy" THEN "None"
  ELSE proxy

PagesAfter(cmd, done) ==
  IF done /\ cmd = "close_tabs" THEN {} ELSE openPages

\* the control method the caller is inside (open_with_param calls set_proxy)
Command(c) == IF op[c] = "open_with_param" THEN "set_proxy" ELSE op[c]

ControlOps == {"set_proxy", "reset_proxy", "close_tabs", "clear_data"}

\* set_proxy(proxy) is called
SetProxyCall(c) ==
  /\ session = "running"
  /\ \E p \in Proxies :
       Begin(c, "set_proxy", [NoArg EXCEPT !.proxy = p], "ctl_nav", 0)
  /\ UNCHANGED <<callers, sessionVars, browserVars>>

\* reset_proxy(), close_tabs() or clear_data() is called
ControlCall(c) ==
  /\ session = "running"
  /\ \E o \in ControlOps \ {"set_proxy"} : Begin(c, o, NoArg, "ctl_nav", 0)
  /\ UNCHANGED <<callers, sessionVars, browserVars>>

\* faulty variant of ControlNavigate: the settle sleep is slept before the
\* error is looked at
ControlNavigateSleepsFirst(c) ==
  /\ pc[c] = "ctl_nav"
  /\ \E o \in DriverAnswers :
       /\ \E done \in Applied(o) :
            /\ proxy' = ProxyAfter(Command(c), arg[c].proxy, done)
            /\ openPages' = PagesAfter(Command(c), done)
       /\ IF Swallows(o)
          THEN /\ Logged(c, Ev(Command(c), o, 0, arg[c].proxy))
               /\ Goto(c, "ctl_sleep")
          ELSE /\ log' = [log EXCEPT ![c] =
                    @ \o <<Ev(Command(c), o, 0, arg[c].proxy),
                           Ev("sleep", SettleName(Command(c)),
                              SettleOf(Command(c), timings), "-")>>]
               /\ Return(c, o)
  /\ UNCHANGED <<callers, sessionVars, callVars, pollVars>>

\* faulty variant of ControlNavigate: open_with_param drops the error of
\* its set_proxy (`let _ =` in place of `?`) and goes on to open the page
ControlNavigateErrorDropped(c) ==
  /\ pc[c] = "ctl_nav"
  /\ \E o \in DriverAnswers :
       /\ Logged(c, Ev(Command(c), o, 0, arg[c].proxy))
       /\ \E done \in Applied(o) :
            /\ proxy' = ProxyAfter(Command(c), arg[c].proxy, done)
            /\ openPages' = PagesAfter(Command(c), done)
       /\ IF Swallows(o) THEN Goto(c, "ctl_sleep")
          ELSE IF op[c] = "open_with_param" THEN Goto(c, "new_page")
          ELSE Return(c, o)
  /\ UNCHANGED <<callers, sessionVars, callVars, pollVars>>

\* if let Err(e) = self.browser.new_page("chrome://<command>").await {..}
ControlNavigate(c) ==
  /\ pc[c] = "ctl_nav"
  /\ \E o \in DriverAnswers :
       /\ Logged(c, Ev(Command(c), o, 0, arg[c].proxy))
       /\ \E done \in Applied(o) :
            /\ proxy' = ProxyAfter(Command(c), arg[c].proxy, done)
            /\ openPages' = PagesAfter(Command(c), done)
       /\ IF Swallows(o) THEN Goto(c, "ctl_sleep") ELSE Return(c, o)
  /\ UNCHANGED <<callers, sessionVars, callVars, pollVars>>

\* open_with_param: the PageParam's steps after each step, in source order
AfterCookies(a) == IF a.stealth_mode THEN "stealth" ELSE "goto"
AfterUserAgent(a) == IF a.cookies THEN "set_cookies" ELSE AfterCookies(a)
AfterNewPage(a) == IF a.user_agent THEN "set_user_agent" ELSE AfterUserAgent(a)
\* faulty variant of AfterCall: the proxy switch is made without looking at
\* param.proxy
AfterCallAlwaysProxy(a) == "ctl_nav"
\* faulty variant of AfterCall: the page is opened without the proxy switch
AfterCallSkipsProxy(a) == "new_page"
AfterCall(a) == IF a.proxy # "None" THEN "ctl_nav" ELSE "new_page"

\* sleep(self.timings.<settle>).await; Ok(())
ControlSettle(c) ==
  /\ pc[c] = "ctl_sleep"
  /\ Logged(c, Ev("sleep", SettleName(Command(c)),
                  SettleOf(Command(c), timings), "-"))
  /\ IF op[c] = "open_with_param" THEN Goto(c, "new_page")
     ELSE Return(c, "ok")
  /\ UNCHANGED <<callers, sessionVars, browserVars, callVars, pollVars>>

(* ------------------------ pages and navigation ------------------------- *)
\* navigation-completion times (ms after goto) the browser may take
NavTimes == {200, 900}

\* the wait_for_element arguments and environment of the selector wait
WaitTimeouts == {0, 25}
Latencies == {0, 12}
AppearTimes == {-1, 0, 15}
Durations == {0, 50}

\* the post-open settle and the selector timeout of the PageParams tried
ParamDuration == 50
ParamWaitTimeout == 25

\* the PageParam values a caller passes to open_with_param; callers that
\* share the session pass either a proxy or the page settings
PageParams ==
  IF Cardinality(callers) = 1
  THEN { a \in [proxy : Proxies \cup {"None"}, user_agent : BOOLEAN,
                 cookies : BOOLEAN, stealth_mode : BOOLEAN,
                 duration : {ParamDuration}, has_wait : BOOLEAN,
                 wait_t : {0, ParamWaitTimeout},
                 timings : {DefaultTimings}, extensions : {<<>>}] :
           a.has_wait <=> a.wait_t = ParamWaitTimeout }
  ELSE { [NoArg EXCEPT !.proxy = p, !.duration = ParamDuration] :
           p \in Proxies \cup {"None"} }
         \cup { [NoArg EXCEPT !.user_agent = TRUE, !.cookies = TRUE,
                              !.stealth_mode = TRUE,
                              !.duration = ParamDuration] }

\* which step follows new_page / open_on_page in each method
AfterPage(c) ==
  IF op[c] = "new_page" THEN "return"
  ELSE IF op[c] = "open_with_param" THEN AfterNewPage(arg[c])
  ELSE "goto"

AfterOpenOnPage(c) ==
  CASE op[c] = "open_with_duration" -> "dur_sleep"
    [] op[c] = "open_with_param" -> "dur_sleep"
    [] op[c] = "myip" -> "m_find"
    [] OTHER -> "return"

\* new_page(), open(url), open_with_duration(url, d) or myip() is called
PageCall(c) ==
  /\ session = "running"
  /\ \/ \E o \in {"new_page", "open", "myip"} :
          Begin(c, o, NoArg, "new_page", 0)
     \/ \E d \in Durations :
          Begin(c, "open_with_duration", [NoArg EXCEPT !.duration = d],
                "new_page", 0)
  /\ UNCHANGED <<callers, sessionVars, browserVars>>

\* open_with_param(url, param) is called
OpenWithParamCall(c) ==
  /\ session = "running"
  /\ \E a \in PageParams : Begin(c, "open_with_param", a, AfterCall(a), 0)
  /\ UNCHANGED <<callers, sessionVars, browserVars>>

\* open_on_page(url, page) is called with a page the caller holds
OpenOnPageCall(c) ==
  /\ session = "running"
  /\ \E pg \in openPages : Begin(c, "open_on_page", NoArg, "goto", pg)
  /\ UNCHANGED <<callers, sessionVars, browserVars>>

\* the id of the page the browser creates next: one no open page has and
\* no caller holds
FreePages == (1..MaxPages) \ (openPages \cup {page[c] : c \in Callers})
FreshPage == CHOOSE i \in FreePages : \A j \in FreePages : i <= j

\* let new_page = self.browser.new_page("about:blank").await?; Ok(new_page)
NewPage(c) ==
  /\ pc[c] = "new_page"
  /\ \E o \in DriverAnswers :
       /\ o = "ok" => FreePages # {}
       /\ Logged(c, Ev("new_page", o, 0, proxy))
       /\ IF o = "ok"
          THEN /\ page' = [page EXCEPT ![c] = FreshPage]
               /\ openPages' = openPages \cup {FreshPage}
               /\ IF AfterPage(c) = "return" THEN Return(c, "ok")
                  ELSE Goto(c, AfterPage(c))
          ELSE /\ UNCHANGED <<page, openPages>>
               /\ Return(c, o)
  /\ UNCHANGED <<callers, sessionVars, proxy, op, arg, pol, attempts, val,
                 config, pollVars>>

\* page.set_user_agent(user_agent).await?
SetUserAgent(c) ==
  /\ pc[c] = "set_user_agent"
  /\ \E o \in DriverAnswers :
       /\ Logged(c, Ev("set_user_agent", o, 0, "-"))
       /\ IF o = "ok" THEN Goto(c, AfterUserAgent(arg[c])) ELSE Return(c, o)
  /\ UNCHANGED <<callers, sessionVars, browserVars, callVars, pollVars>>

\* page.set_cookies(param.cookies.clone()).await?
SetCookies(c) ==
  /\ pc[c] = "set_cookies"
  /\ \E o \in DriverAnswers :
       /\ Logged(c, Ev("set_cookies", o, 0, "-"))
       /\ IF o = "ok" THEN Goto(c, AfterCookies(arg[c])) ELSE Return(c, o)
  /\ UNCHANGED <<callers, sessionVars, browserVars, callVars, pollVars>>

\* faulty variant of EnableStealth: `?` in place of `let _ =`
EnableStealthPropagates(c) ==
  /\ pc[c] = "stealth"
  /\ \E o \in DriverAnswers \cap {"ok", "Driver"} :
       /\ Logged(c, Ev("enable_stealth_mode", o, 0, "-"))
       /\ IF o = "ok" THEN Goto(c, "goto") ELSE Return(c, o)
  /\ UNCHANGED <<callers, sessionVars, browserVars, callVars, pollVars>>

\* let _ = page.enable_stealth_mode().await;
EnableStealth(c) ==
  /\ pc[c] = "stealth"
  /\ \E o \in DriverAnswers \cap {"ok", "Driver"} :
       Logged(c, Ev("enable_stealth_mode", o, 0, "-"))
  /\ Goto(c, "goto")
  /\ UNCHANGED <<callers, sessionVars, browserVars, callVars, pollVars>>

\* faulty variant of IssueGoto: the page is closed before the error of
\* goto is returned
IssueGotoClosesOnError(c) ==
  /\ pc[c] = "goto"
  /\ \E o \in DriverAnswers :
       /\ Logged(c, Ev("goto", o, 0, "-"))
       /\ IF o = "ok"
          THEN Goto(c, "wait_nav") /\ UNCHANGED openPages
          ELSE Return(c, o) /\ openPages' = openPages \ {page[c]}
  /\ UNCHANGED <<callers, sessionVars, proxy, callVars, pollVars>>

\* page.goto(url).await? : issuing the navigation
IssueGoto(c) ==
  /\ pc[c] = "goto"
  /\ \E o \in DriverAnswers :
       /\ Logged(c, Ev("goto", o, 0, "-"))
       /\ IF o = "ok" THEN Goto(c, "wait_nav") ELSE Return(c, o)
  /\ UNCHANGED <<callers, sessionVars, browserVars, callVars, pollVars>>

\* faulty variant of TimeoutAnswers: the future is awaited without timeout()
AwaitedUnbounded(budget, done, r) == {[o |-> r, d |-> done]}

\* timeout(budget, fut) where fut answers r after `done` ms: what the
\* caller sees and how long it waited.  At done = budget either side can win.
TimeoutAnswers(budget, done, r) ==
  (IF done <= budget THEN {[o |-> r, d |-> done]} ELSE {}) \cup
  (IF done >= budget THEN {[o |-> "elapsed", d |-> budget]} ELSE {})

\* let _ = timeout(wait_page_timeout, page.wait_for_navigation()).await
WaitNavigation(c) ==
  /\ pc[c] = "wait_nav"
  /\ \E done \in NavTimes, r \in {"ok", "Driver"} :
       \E w \in TimeoutAnswers(timings.wait_page_timeout, done, r) :
          Logged(c, Ev("wait_for_navigation", w.o, w.d, "-"))
  /\ IF AfterOpenOnPage(c) = "return" THEN Return(c, "ok")
     ELSE Goto(c, AfterOpenOnPage(c))
  /\ UNCHANGED <<callers, sessionVars, browserVars, callVars, pollVars>>

\* sleep(Duration::from_millis(duration)).await
DurationSleep(c) ==
  /\ pc[c] = "dur_sleep"
  /\ Logged(c, Ev("sleep", "duration", arg[c].duration, "-"))
  /\ IF op[c] = "open_with_param" /\ arg[c].has_wait
     THEN Goto(c, "w_enter")
     ELSE Return(c, "ok")
  /\ UNCHANGED <<callers, sessionVars, browserVars, callVars, pollVars>>

(* --------------------------- readiness poller -------------------------- *)
\* whether the selector is in the page at ms t of the wait
Present(c, t) == appear[c] >= 0 /\ appear[c] <= t

\* what page.find_element(selector) answers when the lookup completes at t
FindAnswers(c, t) ==
  (IF Present(c, t) /\ "ok" \in DriverAnswers THEN {"ok"} ELSE {})
    \cup {"Driver"}

\* faulty variant of WaitResult: the result is dropped in the trait method too
WaitResultDropped(c, r) == "ok"

\* the result of the selector wait reaches its caller: open_with_param
\* drops it (`let _ =`), wait_for_element_with_timeout returns it (`??`)
WaitResult(c, r) == IF op[c] = "open_with_param" THEN "ok" ELSE r

\* wait_for_element_with_timeout(selector, t) is called on a held page
WaitCall(c) ==
  /\ session = "running"
  /\ \E pg \in openPages, t \in WaitTimeouts :
       Begin(c, "wait_for_element_with_timeout",
             [NoArg EXCEPT !.has_wait = TRUE, !.wait_t = t], "w_enter", pg)
  /\ UNCHANGED <<callers, sessionVars, browserVars>>

\* timeout(Duration::from_millis(t), self.wait_for_element(selector)) is
\* first polled: the first find_element is issued
WaitEnter(c) ==
  /\ pc[c] = "w_enter"
  /\ clock' = [clock EXCEPT ![c] = 0]
  /\ \E l \in Latencies : wake' = [wake EXCEPT ![c] = l]
  /\ \E x \in AppearTimes : appear' = [appear EXCEPT ![c] = x]
  /\ Logged(c, Ev("wait_for_element", "start", arg[c].wait_t, "-"))
  /\ Goto(c, "w_find")
  /\ UNCHANGED <<callers, sessionVars, browserVars, callVars>>

\* the deadline of timeout() passes while the inner future is pending:
\* the inner future is dropped and Elapsed converts to a BrowserError
WaitElapses(c) ==
  /\ wake[c] >= arg[c].wait_t
  /\ clock' = [clock EXCEPT ![c] = arg[c].wait_t]
  /\ Logged(c, Ev("wait_for_element_with_timeout", "Timeout",
                  arg[c].wait_t, "-"))
  /\ Return(c, WaitResult(c, "Timeout"))
  /\ UNCHANGED <<wake, appear>>

\* while self.find_element(selector).await.is_err() { sleep } ; Ok(())
WaitFind(c) ==
  /\ pc[c] = "w_find"
  /\ \/ /\ wake[c] <= arg[c].wait_t
        /\ clock' = [clock EXCEPT ![c] = wake[c]]
        /\ \E o \in FindAnswers(c, wake[c]) :
             IF o = "ok"
             THEN /\ log' = [log EXCEPT ![c] =
                       @ \o <<Ev("find_element", "ok", wake[c], "-"),
                              Ev("wait_for_element_with_timeout", "ok",
                                 wake[c], "-")>>]
                  /\ Return(c, WaitResult(c, "ok"))
                  /\ UNCHANGED <<wake, appear>>
             ELSE /\ Logged(c, Ev("find_element", o, wake[c], "-"))
                  /\ wake' = [wake EXCEPT ![c] = @ + WAIT_SLEEP]
                  /\ Goto(c, "w_sleep")
                  /\ UNCHANGED appear
     \/ WaitElapses(c)
  /\ UNCHANGED <<callers, sessionVars, browserVars, callVars>>

\* sleep(Duration::from_millis(Self::WAIT_SLEEP)).await, then the next lookup
WaitSleep(c) ==
  /\ pc[c] = "w_sleep"
  /\ \/ /\ wake[c] <= arg[c].wait_t
        /\ clock' = [clock EXCEPT ![c] = wake[c]]
        /\ Logged(c, Ev("sleep", "WAIT_SLEEP", WAIT_SLEEP, "-"))
        /\ \E l \in Latencies : wake' = [wake EXCEPT ![c] = wake[c] + l]
        /\ Goto(c, "w_find")
        /\ UNCHANGED appear
     \/ WaitElapses(c)
  /\ UNCHANGED <<callers, sessionVars, browserVars, callVars>>

(* ------------------------------- myip ---------------------------------- *)
\* page bodies the IP-lookup endpoint may serve: JSON objects as member
\* lists, and text that is not JSON
Member(k, v) == [k |-> k, v |-> v]

Bodies ==
  { [json |-> TRUE,
     members |-> <<Member("ip", "1.2.3.4"), Member("country", "Testland"),
                   Member("cc", "TS")>>],
    [json |-> TRUE,
     members |-> <<Member("cc", "TS"), Member("extra", "x"),
                   Member("ip", "1.2.3.4"), Member("country", "Testland")>>],
    [json |-> TRUE,
     members |-> <<Member("ip", "1.2.3.4"), Member("country", "Testland")>>],
    [json |-> TRUE,
     members |-> <<Member("ip", "1.2.3.4"), Member("country", "Testland"),
                   Member("cc", "TS"), Member("ip", "5.6.7.8")>>],
    [json |-> FALSE, members |-> <<>>] }

\* inner_text() answered None
NoBody == [json |-> FALSE, members |-> <<Member("none", "none")>>]

\* #[derive(Deserialize)] struct MyIP: each field is read from the one
\* member of its name; a missing or a repeated field is an error, a member
\* of another name is skipped
HasMember(ms, k) == Cardinality({i \in 1..Len(ms) : ms[i].k = k}) = 1

ValueOf(ms, k) == (CHOOSE i \in 1..Len(ms) : ms[i].k = k)
MemberValue(ms, k) == ms[ValueOf(ms, k)].v

\* faulty variant of ParseMyIP: a body without the cc member is accepted
ParseMyIPWithoutCc(b) ==
  IF b.json /\ \A k \in {"ip", "country"} : HasMember(b.members, k)
  THEN [ok |-> TRUE, ip |-> MemberValue(b.members, "ip"),
        country |-> MemberValue(b.members, "country"), cc |-> ""]
  ELSE [ok |-> FALSE, ip |-> "", country |-> "", cc |-> ""]

\* serde_json::from_str::<MyIP>(&s).map_err(|_| BrowserError::Serialization)
ParseMyIP(b) ==
  IF b.json /\ \A k \in {"ip", "country", "cc"} : HasMember(b.members, k)
  THEN [ok |-> TRUE, ip |-> MemberValue(b.members, "ip"),
        country |-> MemberValue(b.members, "country"),
        cc |-> MemberValue(b.members, "cc")]
  ELSE [ok |-> FALSE, ip |-> "", country |-> "", cc |-> ""]

\* page.find_element("body").await?
MyipFind(c) ==
  /\ pc[c] = "m_find"
  /\ \E o \in DriverAnswers :
       /\ Logged(c, Ev("find_element", o, 0, "-"))
       /\ IF o = "ok" THEN Goto(c, "m_text") ELSE Return(c, o)
  /\ UNCHANGED <<callers, sessionVars, browserVars, callVars, pollVars>>

\* .inner_text().await?.ok_or(Serialization).map(|s| from_str(&s)...)?
MyipText(c) ==
  /\ pc[c] = "m_text"
  /\ \E o \in DriverAnswers :
       IF o # "ok"
       THEN /\ Logged(c, Ev("inner_text", o, 0, "-"))
            /\ Return(c, o)
            /\ UNCHANGED val
       ELSE \E b \in Bodies \cup {NoBody} :
              IF b = NoBody
              THEN /\ Logged(c, Ev("inner_text", "None", 0, "-"))
                   /\ Return(c, "Serialization")
                   /\ UNCHANGED val
              ELSE /\ Logged(c, Ev("inner_text",
                                   IF ParseMyIP(b).ok THEN "parsed"
                                   ELSE "unparsed", b, "-"))
                   /\ val' = [val EXCEPT ![c] = ParseMyIP(b)]
                   /\ Goto(c, "m_close")
  /\ UNCHANGED <<callers, sessionVars, browserVars, op, arg, pol, page,
                 attempts, config, pollVars>>

\* let _ = page.close().await; myip
MyipClose(c) ==
  /\ pc[c] = "m_close"
  /\ \E o \in DriverAnswers \cap {"ok", "Driver"} :
       /\ Logged(c, Ev("page.close", o, 0, "-"))
       /\ openPages' = IF o = "ok" THEN openPages \ {page[c]} ELSE openPages
  /\ Return(c, IF val[c].ok THEN "ok" ELSE "Serialization")
  /\ UNCHANGED <<callers, sessionVars, proxy, callVars, pollVars>>

(* ----------------------------- environment ----------------------------- *)
\* the browser process dies on its own (crash, kill from outside)
ProcDies ==
  /\ proc = "alive"
  /\ session = "running"
  /\ \A c \in callers : pc[c] \in {"idle", "c_wait_pending"}
  /\ proc' = "exited"
  /\ UNCHANGED <<callers, session, procStarts, drain, spawns, timings,
                 browserVars, op, pc, arg, res, log, pol, page, attempts,
                 pollVars, val, config>>

\* handler.next() yields None: the event stream ended with the connection
DrainStreamEnds ==
  /\ drain = "running"
  /\ proc = "exited"
  /\ \A c \in callers : pc[c] = "idle" \/ op[c] = "close"
  /\ drain' = "ended"
  /\ UNCHANGED <<callers, session, proc, procStarts, spawns, timings,
                 browserVars, op, pc, arg, res, log, pol, page, attempts,
                 pollVars, val, config>>

(* ------------------------------ Next ----------------------------------- *)
Next ==
  \/ \E c \in Callers : LaunchCall(c)
  \/ \E c \in Callers : LaunchConfig(c)
  \/ \E c \in Callers : LaunchDriver(c)
  \/ \E c \in Callers : LaunchSpawn(c)
  \/ \E c \in Callers : LaunchSettle(c)
  \/ \E c \in Callers : SetTimings(c)
  \/ \E c \in Callers : CloseCall(c)
  \/ \E c \in Callers : CloseGraceful(c)
  \/ \E c \in Callers : CloseKill(c)
  \/ \E c \in Callers : CloseWait(c)
  \/ \E c \in Callers : CloseWaitWoken(c)
  \/ \E c \in Callers : CloseTryWait(c)
  \/ \E c \in Callers : CloseAbort(c)
  \/ \E c \in Callers : SetProxyCall(c)
  \/ \E c \in Callers : ControlCall(c)
  \/ \E c \in Callers : ControlNavigate(c)
  \/ \E c \in Callers : ControlSettle(c)
  \/ \E c \in Callers : PageCall(c)
  \/ \E c \in Callers : OpenWithParamCall(c)
  \/ \E c \in Callers : OpenOnPageCall(c)
  \/ \E c \in Callers : NewPage(c)
  \/ \E c \in Callers : SetUserAgent(c)
  \/ \E c \in Callers : SetCookies(c)
  \/ \E c \in Callers : EnableStealth(c)
  \/ \E c \in Callers : IssueGoto(c)
  \/ \E c \in Callers : WaitNavigation(c)
  \/ \E c \in Callers : DurationSleep(c)
  \/ \E c \in Callers : WaitCall(c)
  \/ \E c \in Callers : WaitEnter(c)
  \/ \E c \in Callers : WaitFind(c)
  \/ \E c \in Callers : WaitSleep(c)
  \/ \E c \in Callers : MyipFind(c)
  \/ \E c \in Callers : MyipText(c)
  \/ \E c \in Callers : MyipClose(c)
  \/ \E c \in Callers : Resume(c)
  \/ ProcDies
  \/ DrainStreamEnds

Spec == Init /\ [][Next]_vars

\* the session shared by two callers
SharedSpec == InitShared /\ [][Next]_vars

\* the session driven by one caller, or shared by two
AnySpec == (Init \/ InitShared) /\ [][Next]_vars

\* the steps of the program are taken when they can be: the runtime polls a
\* future that can make progress.  No fairness is assumed of the browser
\* process or the event stream (ProcDies, DrainStreamEnds), nor of a caller
\* making further calls.
Program ==
  \E c \in Callers :
    \/ LaunchConfig(c) \/ LaunchDriver(c) \/ LaunchSpawn(c) \/ LaunchSettle(c)
    \/ CloseGraceful(c) \/ CloseKill(c) \/ CloseWait(c) \/ CloseWaitWoken(c)
    \/ CloseTryWait(c) \/ CloseAbort(c)
    \/ ControlNavigate(c) \/ ControlSettle(c) \/ NewPage(c)
    \/ SetUserAgent(c) \/ SetCookies(c) \/ EnableStealth(c) \/ IssueGoto(c)
    \/ WaitNavigation(c) \/ DurationSleep(c) \/ WaitEnter(c) \/ WaitFind(c)
    \/ WaitSleep(c) \/ MyipFind(c) \/ MyipText(c) \/ MyipClose(c)

FairSpec == Init /\ [][Next]_vars /\ WF_vars(Program)

(* ======================= properties of close() ========================= *)
Entries(c, a) == {i \in 1..Len(log[c]) : log[c][i].a = a}

\* C1: whatever the driver answers to close, kill, wait and try_wait, a
\* close() that returns has cancelled the drain task, and the cancellation
\* is its last action: nothing is logged by that close() after the abort,
\* and the abort is logged only by the step that returns.
C1_CloseAbortsLast ==
  \A c \in Callers :
    op[c] = "close" =>
      /\ pc[c] = "done" =>
           /\ Len(log[c]) > 0
           /\ Last(log[c]).a = "abort"
           /\ drain # "running"
           /\ res[c] = "ok"
      /\ \A i \in Entries(c, "abort") : i = Len(log[c]) /\ pc[c] = "done"

\* a close() that returned after the graceful shutdown, the kill, the wait
\* and every try_wait failed
C1_Witness ==
  \E c \in Callers :
    /\ op[c] = "close" /\ pc[c] = "done"
    /\ \E i \in Entries(c, "close") : log[c][i].o # "ok"
    /\ \E i \in Entries(c, "kill") : log[c][i].o # "ok"
    /\ \E i \in Entries(c, "wait") : log[c][i].o = "Driver"
    /\ \A i \in Entries(c, "try_wait") : log[c][i].o # "ok"
    /\ Entries(c, "try_wait") # {}
    /\ drain = "cancelled"

\* C2: a started close() eventually returns with the drain task cancelled.
C2_CloseTerminates ==
  \A c \in Callers :
    (op[c] = "close" /\ pc[c] # "done")
      ~> (op[c] = "close" /\ pc[c] = "done" /\ drain # "running")

(* ================== properties of the control channel ================== *)
\* C3: a control method that returned did so with success exactly when the
\* pseudo-navigation answered without error or with the network-layer
\* failure, and with the driver's own error in every other case.
C3_OnlyNetworkIOSwallowed ==
  \A c \in Callers :
    (op[c] \in ControlOps /\ pc[c] = "done") =>
      /\ Len(log[c]) >= 1
      /\ log[c][1].a = op[c]
      /\ log[c][1].o \in {"ok", "NetworkIO"} => res[c] = "ok"
      /\ log[c][1].o \notin {"ok", "NetworkIO"} => res[c] = log[c][1].o

\* close_tabs() handed back the driver's timeout unchanged
C3_Witness ==
  \E c \in Callers :
    /\ op[c] = "close_tabs" /\ pc[c] = "done"
    /\ log[c][1].o = "Timeout" /\ res[c] = "Timeout"

(* ==================== properties of open_with_param ==================== *)
\* the place of each logged action in the order of open_with_param's steps
StepRank(e) ==
  CASE e.a = "set_proxy" -> 1
    [] e.a = "sleep" /\ e.o = "set_proxy_sleep" -> 2
    [] e.a = "new_page" -> 3
    [] e.a = "set_user_agent" -> 4
    [] e.a = "set_cookies" -> 5
    [] e.a = "enable_stealth_mode" -> 6
    [] e.a = "goto" -> 7
    [] e.a = "wait_for_navigation" -> 8
    [] e.a = "sleep" /\ e.o = "duration" -> 9
    [] e.a = "wait_for_element" -> 10
    [] e.a \in {"find_element", "wait_for_element_with_timeout"} -> 11
    [] e.a = "sleep" /\ e.o = "WAIT_SLEEP" -> 11
    [] OTHER -> 0

\* the steps a PageParam asks for
AskedRanks(a) ==
  {3, 7, 8, 9}
    \cup (IF a.proxy # "None" THEN {1, 2} ELSE {})
    \cup (IF a.user_agent THEN {4} ELSE {})
    \cup (IF a.cookies THEN {5} ELSE {})
    \cup (IF a.stealth_mode THEN {6} ELSE {})
    \cup (IF a.has_wait THEN {10, 11} ELSE {})

LoggedRanks(c) == {StepRank(log[c][i]) : i \in 1..Len(log[c])}

\* C4: the actions of open_with_param occur in the fixed order proxy
\* switch, settle, page creation, user agent, cookies, stealth, navigation,
\* navigation wait, duration sleep, selector poll; a step occurs only when
\* the PageParam asks for it, and no step occurs before every earlier step
\* that was asked for.  In particular the page is created after the proxy
\* command and its settle sleep.
C4_OpenWithParamOrder ==
  \A c \in Callers :
    op[c] = "open_with_param" =>
      /\ LoggedRanks(c) \subseteq AskedRanks(arg[c])
      /\ \A i, j \in 1..Len(log[c]) :
           i < j => \/ StepRank(log[c][i]) < StepRank(log[c][j])
                    \/ StepRank(log[c][i]) = 11 /\ StepRank(log[c][j]) = 11
      /\ \A r \in LoggedRanks(c) :
           \A q \in AskedRanks(arg[c]) : q < r => q \in LoggedRanks(c)
      /\ \A i \in Entries(c, "set_proxy") : log[c][i].px = arg[c].proxy
      /\ \A i \in 1..Len(log[c]) :
           StepRank(log[c][i]) = 9 => log[c][i].d = arg[c].duration
      /\ \A i \in Entries(c, "wait_for_element") :
           log[c][i].d = arg[c].wait_t
      /\ (pc[c] = "done" /\ res[c] = "ok") =>
           AskedRanks(arg[c]) \subseteq LoggedRanks(c)

\* an open_with_param that was asked for every step and returned the page
C4_Witness ==
  \E c \in Callers :
    /\ op[c] = "open_with_param" /\ pc[c] = "done" /\ res[c] = "ok"
    /\ AskedRanks(arg[c]) = 1..11
    /\ LoggedRanks(c) = 1..11

\* a logged step whose failure makes open_with_param fail
HardFailure(e) ==
  \/ e.a = "set_proxy" /\ e.o \notin {"ok", "NetworkIO"}
  \/ e.a \in {"new_page", "set_user_agent", "set_cookies", "goto"} /\ e.o # "ok"

\* C5: open_with_param returns the page exactly when neither the proxy
\* switch (other than with the network-layer failure), nor the page
\* creation, the user agent, the cookies or the issuing of the navigation
\* failed; when one did, it returns that error.  Failures of stealth mode,
\* of the navigation wait and of the selector poll never make it fail.
C5_OpenWithParamResult ==
  \A c \in Callers :
    (op[c] = "open_with_param" /\ pc[c] = "done") =>
      /\ res[c] = "ok" <=> ~ \E i \in 1..Len(log[c]) : HardFailure(log[c][i])
      /\ res[c] # "ok" => /\ HardFailure(Last(log[c]))
                          /\ res[c] = Last(log[c]).o
      /\ res[c] = "ok" => page[c] \in openPages

\* the page is returned although stealth mode failed, the navigation wait
\* ran out and the selector never appeared
C5_Witness ==
  \E c \in Callers :
    /\ op[c] = "open_with_param" /\ pc[c] = "done" /\ res[c] = "ok"
    /\ \E i \in Entries(c, "enable_stealth_mode") : log[c][i].o = "Driver"
    /\ \E i \in Entries(c, "wait_for_navigation") : log[c][i].o = "elapsed"
    /\ \E i \in Entries(c, "wait_for_element_with_timeout") :
         log[c][i].o = "Timeout"

(* ======================= properties of open_on_page ==================== *)
OpenOps == {"open_on_page", "open", "open_with_duration"}

\* C6: open_on_page fails exactly when issuing the navigation fails (open
\* and open_with_duration: or when the page cannot be created); once the
\* navigation is issued it waits for its completion for at most the
\* wait_page_timeout of the session's timings and returns success whether
\* the completion arrived, failed or the budget ran out.
C6_OpenOnPageResult ==
  \A c \in Callers :
    (op[c] \in OpenOps /\ pc[c] = "done") =>
      /\ res[c] # "ok" <=>
           \E i \in Entries(c, "goto") \cup Entries(c, "new_page") :
             log[c][i].o # "ok"
      /\ op[c] = "open_on_page" => Entries(c, "new_page") = {}
      /\ res[c] # "ok" => res[c] = Last(log[c]).o
      /\ res[c] = "ok" => Cardinality(Entries(c, "wait_for_navigation")) = 1
      /\ \A i \in Entries(c, "wait_for_navigation") :
           /\ i > 1 /\ log[c][i - 1].a = "goto" /\ log[c][i - 1].o = "ok"
           /\ log[c][i].d <= timings.wait_page_timeout
           /\ log[c][i].o \in {"ok", "Driver", "elapsed"}
           /\ log[c][i].o = "elapsed" =>
                log[c][i].d = timings.wait_page_timeout

\* open_on_page returned success after its navigation wait ran out
C6_Witness ==
  \E c \in Callers :
    /\ op[c] = "open_on_page" /\ pc[c] = "done" /\ res[c] = "ok"
    /\ \E i \in Entries(c, "wait_for_navigation") :
         log[c][i].o = "elapsed" /\ log[c][i].d = timings.wait_page_timeout

(* ===================== properties of the poller ======================== *)
Waiting(c) == op[c] = "wait_for_element_with_timeout"

\* the statement of section 8: success if the element appears within t,
\* the timeout error if it does not
C7_SuccessIffAppearsWithinT ==
  \A c \in Callers :
    (Waiting(c) /\ pc[c] = "done") =>
      /\ Present(c, arg[c].wait_t) => res[c] = "ok"
      /\ ~Present(c, arg[c].wait_t) => res[c] = "Timeout"

\* C7 (amended): wait_for_element_with_timeout(selector, t) returns success
\* only after a lookup that found the element, answered no later than t ms
\* after the call; otherwise it returns the timeout error, exactly at t; it
\* never runs past t.  An element that is in the page within t is not
\* always found.
C7_SuccessOnlyAfterLookup ==
  \A c \in Callers :
    Waiting(c) =>
      /\ clock[c] <= arg[c].wait_t
      /\ pc[c] = "done" =>
           /\ res[c] \in {"ok", "Timeout"}
           /\ res[c] = "ok" <=>
                \E i \in Entries(c, "find_element") : log[c][i].o = "ok"
           /\ \A i \in Entries(c, "find_element") :
                log[c][i].o = "ok" =>
                  /\ Present(c, log[c][i].d)
                  /\ log[c][i].d <= arg[c].wait_t
           /\ res[c] = "Timeout" => clock[c] = arg[c].wait_t

\* the element is in the page from the start and t = 0, and the call
\* returns the timeout error
C7_Witness ==
  \E c \in Callers :
    /\ Waiting(c) /\ pc[c] = "done"
    /\ arg[c].wait_t = 0 /\ appear[c] = 0
    /\ res[c] = "Timeout"

(* ========================= properties of launch ======================== *)
\* C8: a launch that fails owns nothing: after a failed configuration the
\* driver was not asked to start a process, after a failed driver launch no
\* drain task was spawned, and no session exists.  A session exists only
\* after the drain task was spawned and the launch settle was slept, and
\* then there is one process and one drain task.
C8_LaunchOwnsNothingOnFailure ==
  /\ session = "none" => spawns = 0 \/ \E c \in Callers : pc[c] \in {"l_sleep"}
  /\ session # "none" => procStarts = 1 /\ spawns = 1
  /\ spawns <= procStarts
  /\ \A c \in Callers :
       op[c] = "launch" =>
         /\ (\E i \in Entries(c, "to_config") : log[c][i].o # "ok") =>
              /\ Entries(c, "Browser::launch") = {}
              /\ procStarts = 0 /\ proc = "none"
         /\ (\E i \in 1..Len(log[c]) : log[c][i].o \notin {"ok", "launch_sleep"}) =>
              /\ pc[c] = "done" /\ res[c] = Last(log[c]).o
              /\ Entries(c, "spawn") = {}
              /\ spawns = 0 /\ drain = "none" /\ session = "none"
         /\ pc[c] = "done" =>
              (res[c] = "ok" <=> session # "none")
         /\ (pc[c] = "done" /\ res[c] = "ok") =>
              /\ Len(log[c]) = 4
              /\ log[c][1] = Ev("to_config", "ok", 0, "-")
              /\ log[c][2] = Ev("Browser::launch", "ok", 0, "-")
              /\ log[c][3] = Ev("spawn", "ok", 0, "-")
              /\ log[c][4] = Ev("sleep", "launch_sleep",
                                arg[c].timings.launch_sleep, "-")
              /\ timings = arg[c].timings

\* a launch that returned the session
C8_Witness ==
  \E c \in Callers :
    /\ op[c] = "launch" /\ pc[c] = "done" /\ res[c] = "ok"
    /\ session = "running" /\ proc = "alive" /\ drain = "running"
    /\ arg[c].timings = FastTimings

(* ======================= properties of set_timings ===================== *)
InFlight(c) == pc[c] \notin {"idle", "done"}

\* C9: set_timings replaces the whole BrowserTimings at once: after it the
\* session's timings are the policy passed; no method is in flight when
\* the timings change, so each method sleeps durations of the one policy
\* in force when it was called: set_proxy the set_proxy_sleep, the other
\* control methods the action_sleep, and the navigation wait is bounded by
\* its wait_page_timeout.
C9_TimingsReplacedWhole ==
  /\ timings \in TimingPolicies
  /\ \A c \in Callers :
       /\ (op[c] = "set_timings" /\ pc[c] = "done") =>
            /\ timings = arg[c].timings
            /\ \A d \in Callers \ {c} : ~InFlight(d)
       /\ (InFlight(c) /\ op[c] # "launch") => pol[c] = timings
       /\ \A i \in Entries(c, "sleep") :
            /\ log[c][i].o = "set_proxy_sleep" =>
                 log[c][i].d = pol[c].set_proxy_sleep
            /\ log[c][i].o = "action_sleep" =>
                 log[c][i].d = pol[c].action_sleep
            /\ (log[c][i].o \in {"set_proxy_sleep", "action_sleep"}
                  /\ op[c] # "open_with_param") =>
                 log[c][i].o = SettleName(op[c])
       /\ \A i \in Entries(c, "wait_for_navigation") :
            /\ log[c][i].d <= pol[c].wait_page_timeout
            /\ log[c][i].o = "elapsed" =>
                 log[c][i].d = pol[c].wait_page_timeout

\* after set_timings(FastTimings), clear_data slept the new action_sleep
C9_Witness ==
  \E c \in Callers :
    /\ op[c] = "clear_data" /\ pc[c] = "done" /\ res[c] = "ok"
    /\ timings = FastTimings
    /\ \E i \in Entries(c, "sleep") :
         log[c][i].o = "action_sleep" /\ log[c][i].d = FastTimings.action_sleep

(* ========================== properties of myip ========================= *)
\* C10: a myip() that opened its page and returned has attempted to close
\* that page.
C10_MyipClosesItsPage ==
  \A c \in Callers :
    (op[c] = "myip" /\ pc[c] = "done" /\ page[c] # 0) =>
      Entries(c, "page.close") # {}

\* the body text is a JSON object with exactly one ip, one country and one
\* cc member (members of other names are allowed)
MyIPShape(b) ==
  /\ b.json
  /\ \A k \in {"ip", "country", "cc"} :
       \E i \in 1..Len(b.members) :
         /\ b.members[i].k = k
         /\ \A j \in 1..Len(b.members) : b.members[j].k = k => j = i

\* C11: a myip() that read the body returns the MyIP value made of the
\* body's ip, country and cc when the text has that shape, and the
\* Serialization error when inner_text answered None or the text does not
\* parse; whether the final page.close() succeeded or failed, the result is
\* the one decided before it.
C11_MyipResult ==
  \A c \in Callers :
    (op[c] = "myip" /\ pc[c] = "done") =>
      \A i \in Entries(c, "inner_text") :
        /\ i = Len(log[c]) \/ (i + 1 = Len(log[c]) /\ Last(log[c]).a = "page.close")
        /\ log[c][i].o = "None" =>
             res[c] = "Serialization" /\ ~val[c].ok
        /\ log[c][i].o \in {"parsed", "unparsed"} =>
             /\ Last(log[c]).a = "page.close"
             /\ Last(log[c]).o \in {"ok", "Driver"}
             /\ MyIPShape(log[c][i].d) =>
                  /\ res[c] = "ok" /\ val[c].ok
                  /\ \A j \in 1..Len(log[c][i].d.members) :
                       LET m == log[c][i].d.members[j] IN
                         /\ m.k = "ip" => val[c].ip = m.v
                         /\ m.k = "country" => val[c].country = m.v
                         /\ m.k = "cc" => val[c].cc = m.v
             /\ ~MyIPShape(log[c][i].d) =>
                  res[c] = "Serialization" /\ ~val[c].ok

\* myip() returned the parsed value although closing its page failed
C11_Witness ==
  \E c \in Callers :
    /\ op[c] = "myip" /\ pc[c] = "done" /\ res[c] = "ok"
    /\ val[c] = [ok |-> TRUE, ip |-> "1.2.3.4", country |-> "Testland",
                 cc |-> "TS"]
    /\ Last(log[c]) = Ev("page.close", "Driver", 0, "-")
    /\ page[c] \in openPages

(* ========================= properties of to_config ===================== *)
\* C12: whatever extensions the BrowserSessionConfig lists (none included),
\* the BrowserConfig that to_config built, and that launch hands to
\* Browser::launch, lists the built-in extension first and then the
\* config's own extensions in their order; the driver is handed no other
\* configuration.
C12_BuiltInExtensionFirst ==
  \A c \in Callers :
    /\ (\E i \in Entries(c, "Browser::launch") : TRUE) =>
         op[c] = "launch" /\ config[c].built
    /\ (op[c] = "launch" /\ config[c].built) =>
         /\ Len(config[c].extensions) = Len(arg[c].extensions) + 1
         /\ config[c].extensions[1] = EXTENSION_PATH
         /\ \A i \in 1..Len(arg[c].extensions) :
              config[c].extensions[i + 1] = arg[c].extensions[i]

\* the driver was handed a configuration built from two caller extensions
C12_Witness ==
  \E c \in Callers :
    /\ op[c] = "launch"
    /\ arg[c].extensions = <<"e2", "e1">>
    /\ config[c].extensions = <<EXTENSION_PATH, "e2", "e1">>
    /\ \E i \in Entries(c, "Browser::launch") : log[c][i].o = "ok"

(* ==================== properties of close()'s retries ================== *)
\* C13: within one close() the kill is issued only after the graceful
\* shutdown failed, try_wait is called only after wait() failed, try_wait
\* is called at most 4 times, and a close() that returned did so normally.
C13_CloseRetriesAtMostFour ==
  \A c \in Callers :
    op[c] = "close" =>
      /\ \A i \in Entries(c, "kill") :
           i = 2 /\ log[c][1].a = "close" /\ log[c][1].o # "ok"
      /\ \A i \in Entries(c, "try_wait") :
           \E j \in Entries(c, "wait") : j < i /\ log[c][j].o = "Driver"
      /\ Cardinality(Entries(c, "try_wait")) <= 4
      /\ pc[c] = "done" => res[c] = "ok"

(* ====================== properties of the drain task =================== *)
\* C14: while a session returned by launch exists and close() has not
\* been called on it, the drain task is running.  (The states inside a
\* close() are left out: there the stream may end with the browser's own
\* shutdown just before the abort.)
C14_DrainRunsUntilClose ==
  (session = "running" /\ \A c \in Callers : op[c] # "close") =>
    drain = "running"

(* ================== properties of concurrent callers =================== *)
\* the pages c's open_with_param created, with the proxy in force then
PagesCreated(c) == {i \in Entries(c, "new_page") : log[c][i].o = "ok"}

\* C15: a caller that uses the session alone, one call after another, has
\* every page of an open_with_param(proxy = P) created while P is the proxy
\* the browser applied last: a page created under another proxy is
\* unreachable for it.  (With two callers it is reachable: C15_Witness.)
C15_AloneUnderOwnProxy ==
  \A c \in Callers :
    (callers = {c} /\ op[c] = "open_with_param" /\ arg[c].proxy # "None") =>
      /\ \A i \in PagesCreated(c) : log[c][i].px = arg[c].proxy
      /\ pc[c] \in {"new_page", "set_user_agent", "set_cookies", "stealth",
                    "goto", "wait_nav", "dur_sleep"} => proxy = arg[c].proxy

\* two callers run open_with_param with different proxies at once, both
\* proxy commands were carried out and settled, and the blank page of the
\* first caller was created while the second caller's proxy was in force
C15_Witness ==
  /\ callers = Callers
  /\ \E c, d \in Callers :
       /\ c # d
       /\ op[c] = "open_with_param" /\ op[d] = "open_with_param"
       /\ arg[c].proxy = "p1" /\ arg[d].proxy = "p2"
       /\ InFlight(c) /\ InFlight(d)
       /\ \E i \in Entries(c, "set_proxy") : log[c][i].o = "ok"
       /\ \E i \in Entries(d, "set_proxy") : log[d][i].o = "ok"
       /\ \E i \in PagesCreated(c) : log[c][i].px = "p2"

(* ===================== properties of created pages ===================== *)
\* the methods that create a page and return it
PageMakers == {"open", "open_with_duration", "open_with_param"}

\* C16: open, open_with_duration and open_with_param never close a page.
\* When one of them returns an error after its blank page was created, the
\* failed step is the user agent, the cookies or the issuing of the
\* navigation, the page is still open in the browser, and the caller gets
\* the error and no Page.
C16_FailedOpenLeavesPage ==
  \A c \in Callers :
    op[c] \in PageMakers =>
      /\ Entries(c, "page.close") = {}
      /\ page[c] # 0 => page[c] \in openPages /\ PagesCreated(c) # {}
      /\ (pc[c] = "done" /\ res[c] # "ok" /\ PagesCreated(c) # {}) =>
           /\ page[c] \in openPages
           /\ Last(log[c]).a \in {"set_user_agent", "set_cookies", "goto"}
           /\ Last(log[c]).o = res[c]
           /\ op[c] # "open_with_param" => Last(log[c]).a = "goto"

\* open_with_param created its page and then failed to set the cookies
C16_Witness ==
  \E c \in Callers :
    /\ op[c] = "open_with_param" /\ pc[c] = "done" /\ res[c] = "Driver"
    /\ Last(log[c]).a = "set_cookies"
    /\ page[c] \in openPages

(* ================ properties of propagated control errors ============== *)
\* a control command answered with an error the method propagates
Propagated(e) == e.a \in ControlOps /\ e.o \notin {"ok", "NetworkIO"}

\* C17: a control method whose command fails with a propagated error
\* returns that error at once: the command is the only entry of its trace
\* and no settle sleep follows.  When it is the set_proxy inside
\* open_with_param, open_with_param returns that error with no page
\* created and no further driver command issued.
C17_PropagatedErrorReturnsAtOnce ==
  \A c \in Callers :
    /\ (op[c] \in ControlOps \cup {"open_with_param"}) =>
         \A i \in 1..Len(log[c]) :
           Propagated(log[c][i]) =>
             /\ i = 1 /\ Len(log[c]) = 1
             /\ pc[c] = "done" /\ res[c] = log[c][i].o
             /\ Entries(c, "sleep") = {}
             /\ page[c] = 0
    /\ (op[c] \in ControlOps /\ pc[c] = "done" /\ res[c] # "ok") =>
         Len(log[c]) = 1 /\ Propagated(log[c][1])
    /\ (op[c] \in ControlOps /\ pc[c] = "done" /\ res[c] = "ok") =>
         Len(log[c]) = 2 /\ log[c][2].a = "sleep"

\* open_with_param returned the timeout of its proxy switch, with nothing
\* else done
C17_Witness ==
  \E c \in Callers :
    /\ op[c] = "open_with_param" /\ pc[c] = "done" /\ res[c] = "Timeout"
    /\ arg[c].user_agent /\ arg[c].cookies /\ arg[c].stealth_mode
    /\ log[c] = <<Ev("set_proxy", "Timeout", 0, arg[c].proxy)>>
    /\ page[c] = 0

(* ===================== properties of the active proxy ================== *)
\* the proxy commands
ProxyOps == {"set_proxy", "reset_proxy"}

\* the calls that carry no proxy: every method but set_proxy, reset_proxy
\* and an open_with_param whose PageParam names a proxy
WithoutProxy(c) ==
  /\ op[c] \notin ProxyOps \cup {"none"}
  /\ op[c] = "open_with_param" => arg[c].proxy = "None"

\* a step in which caller c's proxy command is answered
ProxyCommandStep(c) ==
  /\ pc[c] = "ctl_nav" /\ pc'[c] # "ctl_nav"
  /\ ~WithoutProxy(c)
  /\ Len(log'[c]) = Len(log[c]) + 1
  /\ Last(log'[c]).a \in ProxyOps
  /\ proxy' \in {"None", arg[c].proxy}
  /\ Last(log'[c]).a = "reset_proxy" => proxy' = "None"
  /\ Last(log'[c]).a = "set_proxy" => proxy' = arg[c].proxy

\* C18: the active proxy changes only in a step that answers a set_proxy
\* or reset_proxy command (set_proxy also when open_with_param issues it
\* for a PageParam with a proxy).  Every other call issues no proxy
\* command, and when one caller uses the session alone the proxy stays as
\* it was throughout the call, so each page the call creates is created
\* under the proxy that was active before it and still is.
C18_ProxyChangedOnlyByProxyOps ==
  [][ /\ proxy' # proxy => \E c \in Callers : ProxyCommandStep(c)
      /\ \A c \in Callers :
           WithoutProxy(c)' =>
             /\ \A i \in 1..Len(log'[c]) : log'[c][i].a \notin ProxyOps
             /\ (callers = {c} /\ pc[c] # "idle" /\ pc'[c] # "idle") =>
                  proxy' = proxy
             /\ callers = {c} =>
                  \A i \in 1..Len(log'[c]) :
                    log'[c][i].a = "new_page" => log'[c][i].px = proxy' ]_vars

\* a page opened without a proxy parameter was created with the proxy of an
\* earlier set_proxy still active
C18_Witness ==
  \E c \in Callers :
    /\ callers = {c}
    /\ op[c] = "open_with_param" /\ arg[c].proxy = "None"
    /\ pc[c] = "done" /\ res[c] = "ok"
    /\ proxy = "p2"
    /\ \E i \in PagesCreated(c) : log[c][i].px = "p2"
====
